---- MODULE Spec2Model ----
(***************************************************************************)
(* Model of scripts/update_offers.py: the BudgetDranken page extractor     *)
(* (parse_price, extract_json_ld, parse_budgetdranken_product) and the     *)
(* update_offers run (load, per-offer fetch and reconcile, final write).   *)
(*                                                                         *)
(* Python values are tagged records: None, str, float (an amount in        *)
(* hundredths, or NaN).  Text that the code parses is a sequence of        *)
(* one-character strings, so that parsing is computed, not assumed.        *)
(***************************************************************************)
EXTENDS Integers, Sequences, FiniteSets, TLC

(* ------------------------------------------------------------------ *)
(* Bounds of the model                                                *)
(* ------------------------------------------------------------------ *)
MaxOffers == 2
MaxRuns == 2

(* ------------------------------------------------------------------ *)
(* Python values                                                      *)
(* ------------------------------------------------------------------ *)
PyNone == [k |-> "None"]
PyNaN == [k |-> "nan"]
Missing == [k |-> "missing"]
PyStr(s) == [k |-> "str", s |-> s]
PyFloat(c) == [k |-> "float", c |-> c]

\* Python's != on the values above: NaN differs from everything, itself included.
PyNe(a, b) == IF a.k = "nan" \/ b.k = "nan" THEN TRUE ELSE a # b

\* Python truthiness of a title value (None and the empty string are falsy).
Truthy(v) == ~(v = PyNone \/ v = PyStr(""))

\* dict.get(key): None when the key is missing.
DictGet(v) == IF v = Missing THEN PyNone ELSE v

(* ------------------------------------------------------------------ *)
(* Text as sequences of characters                                    *)
(* ------------------------------------------------------------------ *)
DigitChars == {"0", "1", "2", "3", "4", "5", "6", "7", "8", "9"}
DigitVal(ch) ==
  CASE ch = "0" -> 0 [] ch = "1" -> 1 [] ch = "2" -> 2 [] ch = "3" -> 3
    [] ch = "4" -> 4 [] ch = "5" -> 5 [] ch = "6" -> 6 [] ch = "7" -> 7
    [] ch = "8" -> 8 [] ch = "9" -> 9

IsSpace(ch) == ch \in {" ", "nbsp", "nl"}

RemoveChar(s, ch) == SelectSeq(s, LAMBDA x : x # ch)
ReplaceChar(s, a, b) == [i \in 1..Len(s) |-> IF s[i] = a THEN b ELSE s[i]]

RECURSIVE LStrip(_)
LStrip(s) == IF s # <<>> /\ IsSpace(Head(s)) THEN LStrip(Tail(s)) ELSE s
RECURSIVE RStrip(_)
RStrip(s) ==
  IF s # <<>> /\ IsSpace(s[Len(s)]) THEN RStrip(SubSeq(s, 1, Len(s) - 1)) ELSE s
Strip(s) == LStrip(RStrip(s))

\* Value of a run of decimal digits.
RECURSIVE DigitsValue(_)
DigitsValue(s) ==
  IF s = <<>> THEN 0
  ELSE 10 * DigitsValue(SubSeq(s, 1, Len(s) - 1)) + DigitVal(s[Len(s)])

\* Length of the maximal run of digits of s starting at position i.
RECURSIVE DigitRun(_, _)
DigitRun(s, i) ==
  IF i <= Len(s) /\ s[i] \in DigitChars THEN 1 + DigitRun(s, i + 1) ELSE 0

\* Hundredths denoted by one or two fractional digits.
FracCents(s) == IF Len(s) = 1 THEN 10 * DigitVal(s[1]) ELSE DigitsValue(s)

(* ------------------------------------------------------------------ *)
(* parse_price                                                        *)
(* ------------------------------------------------------------------ *)
\* re.search(r"(\d+(\.\d{1,2})?)", cleaned): the leftmost match starts at the
\* first digit, takes the whole run of digits, and then a dot followed by
\* one or two digits when they are there.  float() of the match, in hundredths.
RegexAmount(cleaned) ==
  LET starts == {i \in 1..Len(cleaned) : cleaned[i] \in DigitChars} IN
  IF starts = {} THEN PyNone
  ELSE
    LET i0 == CHOOSE i \in starts : \A j \in starts : i <= j
        n == DigitRun(cleaned, i0)
        dot == i0 + n
        nf == IF dot <= Len(cleaned) /\ cleaned[dot] = "."
              THEN DigitRun(cleaned, dot + 1) ELSE 0
        fl == IF nf > 2 THEN 2 ELSE nf
        whole == DigitsValue(SubSeq(cleaned, i0, i0 + n - 1))
    IN PyFloat(100 * whole
               + (IF fl = 0 THEN 0 ELSE FracCents(SubSeq(cleaned, dot + 1, dot + fl))))

\* text is a character sequence (the element's get_text()).
parse_price(text) ==
  IF text = <<>> THEN PyNone
  ELSE
    LET c1 == Strip(RemoveChar(RemoveChar(text, "EUR"), "nbsp"))
        c2 == ReplaceChar(RemoveChar(c1, "."), ",", ".")
    IN RegexAmount(c2)

(* ------------------------------------------------------------------ *)
(* float() of a JSON value of the structured data                     *)
(* ------------------------------------------------------------------ *)
\* JSON values of an offers entry: a string (character sequence), a number
\* (hundredths) or null.
JStr(s) == [k |-> "jstr", s |-> s]
JNum(c) == [k |-> "jnum", c |-> c]
JNull == [k |-> "jnull"]

LowerChar(ch) ==
  CASE ch = "N" -> "n" [] ch = "A" -> "a" [] ch = "B" -> "b" [] ch = "W" -> "w"
    [] ch = "D" -> "d" [] ch = "L" -> "l" [] OTHER -> ch
Lower(s) == [i \in 1..Len(s) |-> LowerChar(s[i])]

\* float(v): [ok |-> TRUE, v |-> value] or [ok |-> FALSE, exc |-> exception].
\* Strings: surrounding whitespace is ignored; "nan" in any case is NaN;
\* digits with an optional fraction of one or two digits are the amount;
\* everything else here (letters, a decimal comma, the empty string) is a
\* ValueError.  float(None) is a TypeError.
FloatOfStr(s) ==
  LET t == Strip(s)
      n == DigitRun(t, 1)
      nf == IF n + 1 <= Len(t) /\ t[n + 1] = "." THEN DigitRun(t, n + 2) ELSE 0
  IN
  IF Lower(t) = <<"n", "a", "n">> THEN [ok |-> TRUE, v |-> PyNaN]
  ELSE IF n >= 1 /\ Len(t) = n
    THEN [ok |-> TRUE, v |-> PyFloat(100 * DigitsValue(t))]
  ELSE IF n >= 1 /\ nf \in {1, 2} /\ Len(t) = n + 1 + nf
    THEN [ok |-> TRUE,
          v |-> PyFloat(100 * DigitsValue(SubSeq(t, 1, n))
                        + FracCents(SubSeq(t, n + 2, n + 1 + nf)))]
  ELSE [ok |-> FALSE, exc |-> "ValueError"]

PyFloatOf(v) ==
  CASE v.k = "jnum" -> [ok |-> TRUE, v |-> PyFloat(v.c)]
    [] v.k = "jstr" -> FloatOfStr(v.s)
    [] OTHER -> [ok |-> FALSE, exc |-> "TypeError"]

(* ------------------------------------------------------------------ *)
(* Fetched pages                                                      *)
(* ------------------------------------------------------------------ *)
\* A page is what requests.get gives for a URL:
\*   status   "ok", "timeout" (requests.get raises) or "404"
\*            (raise_for_status raises);
\*   scripts  the contents of the application/ld+json script tags, in document
\*            order: [k |-> "badjson"], [k |-> "dict", ...] or [k |-> "list", ...];
\*   h1base, h1page, h1   the stripped text of the first element matching
\*            "h1.page-title span.base", "h1.page-title", "h1" (Missing: none);
\*   finalPrice, oldPrice  the text (PyStr of a character sequence) of the
\*            first element matching the finalPrice / oldPrice selector
\*            (Missing: no such element).
BadJson == [k |-> "badjson"]
LdDict(hasOffers, name, offers) ==
  [k |-> "dict", hasOffers |-> hasOffers, name |-> name, offers |-> offers]
LdList(items) == [k |-> "list", items |-> items]
OffersDict(price, low, high) ==
  [k |-> "dict", price |-> price, lowPrice |-> low, highPrice |-> high]
OffersList == [k |-> "list"]

Page(status, scripts, h1base, h1page, h1, finalPrice, oldPrice) ==
  [status |-> status, scripts |-> scripts, h1base |-> h1base, h1page |-> h1page,
   h1 |-> h1, finalPrice |-> finalPrice, oldPrice |-> oldPrice]

(* ------------------------------------------------------------------ *)
(* extract_json_ld                                                    *)
(* ------------------------------------------------------------------ *)
\* First dict with an "offers" key among the items of a list.
RECURSIVE FirstWithOffers(_)
FirstWithOffers(items) ==
  IF items = <<>> THEN PyNone
  ELSE IF Head(items).k = "dict" /\ Head(items).hasOffers THEN Head(items)
  ELSE FirstWithOffers(Tail(items))

RECURSIVE extract_json_ld(_)
extract_json_ld(scripts) ==
  IF scripts = <<>> THEN PyNone
  ELSE
    LET data == Head(scripts) IN
    IF data.k = "badjson" THEN extract_json_ld(Tail(scripts))
    ELSE IF data.k = "list" /\ FirstWithOffers(data.items) # PyNone
      THEN FirstWithOffers(data.items)
    ELSE IF data.k = "dict" /\ data.hasOffers THEN data
    ELSE extract_json_ld(Tail(scripts))

(* ------------------------------------------------------------------ *)
(* parse_budgetdranken_product                                        *)
(* ------------------------------------------------------------------ *)
Returned(title, price, old_price) ==
  [outcome |-> "return", title |-> title, price |-> price, old_price |-> old_price]
Raised(exc) == [outcome |-> "raise", exc |-> exc]

MinPrice == 500

\* The JSON-LD branch (product_json is not None).
JsonLdResult(product_json) ==
  LET title == DictGet(product_json.name)
      offers == product_json.offers
      has(f) == offers.k = "dict" /\ offers[f] # Missing
      fp == IF has("price") THEN PyFloatOf(offers.price) ELSE [ok |-> TRUE, v |-> PyNone]
      fl == IF has("lowPrice") THEN PyFloatOf(offers.lowPrice) ELSE [ok |-> TRUE, v |-> PyNone]
      fh == IF has("highPrice") THEN PyFloatOf(offers.highPrice) ELSE [ok |-> TRUE, v |-> PyNone]
      price1 == IF fp.ok THEN fp.v ELSE PyNone
      price == IF has("lowPrice") THEN fl.v ELSE price1
  IN
  IF ~fp.ok /\ fp.exc # "ValueError" THEN Raised(fp.exc)
  ELSE IF ~fl.ok THEN Raised(fl.exc)
  ELSE IF ~fh.ok THEN Raised(fh.exc)
  ELSE Returned(title, price, fh.v)

\* The HTML fallback with its final protection.
BelowMinimum(price) == price.k = "float" /\ price.c < MinPrice

FallbackResult(page) ==
  LET title_el == IF page.h1base # Missing THEN page.h1base
                  ELSE IF page.h1page # Missing THEN page.h1page
                  ELSE page.h1
      title == IF title_el # Missing THEN title_el ELSE PyNone
      price0 == IF page.finalPrice # Missing THEN parse_price(page.finalPrice.s) ELSE PyNone
      old_price == IF page.oldPrice # Missing THEN parse_price(page.oldPrice.s) ELSE PyNone
      price == IF price0 # PyNone /\ BelowMinimum(price0) THEN PyNone ELSE price0
  IN Returned(title, price, old_price)

parse_budgetdranken_product(page) ==
  IF page.status = "timeout" THEN Raised("RequestException")
  ELSE IF page.status = "404" THEN Raised("HTTPError")
  ELSE
    LET product_json == extract_json_ld(page.scripts) IN
    IF product_json # PyNone THEN JsonLdResult(product_json)
    ELSE FallbackResult(page)

(* ------------------------------------------------------------------ *)
(* URLs and the domain filter                                         *)
(* ------------------------------------------------------------------ *)
\* A URL is kept split the way urlparse splits it.
Url(netloc, path) == [k |-> "url", netloc |-> netloc, path |-> path]

Contains(sub, s) ==
  \E i \in 0..(Len(s) - Len(sub)) : SubSeq(s, i + 1, i + Len(sub)) = sub

VendorDomain ==
  <<"b", "u", "d", "g", "e", "t", "d", "r", "a", "n", "k", "e", "n", ".", "n", "l">>

\* if not url: continue
NoUrl(url) == url = PyNone \/ url = PyStr("")

\* "budgetdranken.nl" in urlparse(url).netloc.lower()
InDomain(url) == Contains(VendorDomain, Lower(url.netloc))

(* ------------------------------------------------------------------ *)
(* Reconciliation of one offer (update_offers, the body of the loop)  *)
(* ------------------------------------------------------------------ *)
TitleDiffers(offer, title) == Truthy(title) /\ PyNe(title, DictGet(offer.title))
PriceDiffers(offer, price) == price # PyNone /\ PyNe(price, DictGet(offer.price))
OldPriceDiffers(offer, old_price) ==
  old_price # PyNone /\ PyNe(old_price, DictGet(offer.oldPrice))

\* The print of the title update reads offer['title']: a KeyError when the
\* offer has no title key.
ReconcileRaises(offer, r) == TitleDiffers(offer, r.title) /\ offer.title = Missing

NewTitle(offer, r) == IF TitleDiffers(offer, r.title) THEN r.title ELSE offer.title
\* A whole-record merge: the candidate's price is stored even when it is absent.
NewPrice_WholeRecord(offer, r) == r.price

NewPrice(offer, r) == IF PriceDiffers(offer, r.price) THEN r.price ELSE offer.price
NewOldPrice(offer, r) ==
  IF OldPriceDiffers(offer, r.old_price) THEN r.old_price ELSE offer.oldPrice

Reconcile(offer, r) ==
  [offer EXCEPT !.title = NewTitle(offer, r),
                !.price = NewPrice(offer, r),
                !.oldPrice = NewOldPrice(offer, r)]

ReconcileChanged(offer, r) ==
  \/ TitleDiffers(offer, r.title)
  \/ PriceDiffers(offer, r.price)
  \/ OldPriceDiffers(offer, r.old_price)

\* changed = True is only ever set, never cleared, inside the loop.
\* The flag assigned, not only set: the last offer decides.
NewChanged_LastWins(chg, c) == c

NewChanged(chg, c) == chg \/ c

(* ------------------------------------------------------------------ *)
(* The pages the vendor serves (inputs of the model)                  *)
(* ------------------------------------------------------------------ *)
NoHtml(scripts) == Page("ok", scripts, Missing, Missing, Missing, Missing, Missing)
NoOffers == LdDict(FALSE, PyStr("Breadcrumbs"), Missing)
Product(offers) == LdDict(TRUE, PyStr("Lagavulin 16"), offers)

TxtFinal == PyStr(<<"EUR", " ", "3", "4", ",", "9", "5">>)
TxtDeposit == PyStr(<<"EUR", "nbsp", "1", ",", "2", "5">>)
TxtOld == PyStr(<<"EUR", " ", "3", "9", ",", "9", "5">>)

HostWww == <<"w", "w", "w", ".">> \o VendorDomain
HostUpper ==
  <<"W", "W", "W", ".", "B", "u", "d", "g", "e", "t", "D", "r", "a", "n", "k", "e", "n",
    ".", "N", "L">>
HostOther == <<"s", "h", "o", "p", ".", "e", "x", "a", "m", "p", "l", "e">>

\* The URLs of the model's world, each with the page it serves.
World ==
  << \* structured data with a single price
     [url |-> Url(HostWww, "/lagavulin"),
      page |-> NoHtml(<<Product(OffersDict(JStr(<<"3", "4", ".", "9", "5">>), Missing, Missing))>>)],
     \* structured data with a low/high range, after an unparsable script tag
     [url |-> Url(HostWww, "/sale"),
      page |-> NoHtml(<<BadJson, NoOffers,
                        LdList(<<NoOffers,
                                 Product(OffersDict(Missing, JNum(2995), JNum(3995)))>>)>>)],
     \* structured data whose price is a deposit
     [url |-> Url(HostWww, "/deposit"),
      page |-> NoHtml(<<Product(OffersDict(JStr(<<"1", ".", "2", "5">>), Missing, Missing))>>)],
     \* structured data without a usable price, the price only in the HTML
     [url |-> Url(HostWww, "/noprice"),
      page |-> Page("ok", <<Product(OffersDict(JStr(<<"a", "b", "c">>), Missing, Missing))>>,
                    Missing, PyStr("Lagavulin 16"), PyStr("Lagavulin 16"),
                    TxtFinal, Missing)],
     \* structured data whose lowPrice does not parse
     [url |-> Url(HostWww, "/broken"),
      page |-> NoHtml(<<Product(OffersDict(Missing, JStr(<<"a", "b", "c">>), Missing))>>)],
     \* structured data whose price is NaN
     [url |-> Url(HostWww, "/nan"),
      page |-> NoHtml(<<Product(OffersDict(JStr(<<"N", "a", "N">>), Missing, Missing))>>)],
     \* no structured data: the HTML fallback, upper-case host
     [url |-> Url(HostUpper, "/html"),
      page |-> Page("ok", <<BadJson>>, PyStr("Lagavulin 16"), Missing, Missing,
                    TxtFinal, TxtOld)],
     \* no structured data, the only price on the page is a deposit
     [url |-> Url(VendorDomain, "/titleonly"),
      page |-> Page("ok", <<>>, Missing, Missing, PyStr("Talisker 10"),
                    TxtDeposit, Missing)],
     \* the vendor answers 404
     [url |-> Url(HostWww, "/gone"),
      page |-> Page("404", <<>>, Missing, Missing, Missing, Missing, Missing)],
     \* another shop, whose page would change the offer if it were read
     [url |-> Url(HostOther, "/lagavulin"),
      page |-> NoHtml(<<Product(OffersDict(JStr(<<"3", "4", ".", "9", "5">>), Missing, JNum(3995)))>>)]
  >>

WorldUrls == {World[i].url : i \in DOMAIN World}

\* The page the URL serves: the first entry of the world with that URL.
RECURSIVE PageFrom(_, _)
PageFrom(url, i) == IF World[i].url = url THEN World[i].page ELSE PageFrom(url, i + 1)
PageOf(url) == PageFrom(url, 1)

\* requests.get(url) and the extraction from the page it gives.
FetchAndParse(url) == parse_budgetdranken_product(PageOf(url))

\* Stored offers: the fields this program reads, and one it does not know.
Offer(url, title, price, oldPrice) ==
  [url |-> url, title |-> title, price |-> price, oldPrice |-> oldPrice,
   shop |-> PyStr("BD")]

\* An offer with the url only, one with an outdated title and price, and one
\* that already holds what the Lagavulin pages show.
Bare(url) == Offer(url, Missing, Missing, Missing)
Outdated(url) == Offer(url, PyStr("Old title"), PyFloat(3000), Missing)
Current(url) == Offer(url, PyStr("Lagavulin 16"), PyFloat(3495), PyFloat(3995))

\* The offers a store is made of: every URL of the world with outdated
\* contents, some of them also bare or current, an offer without a url key and
\* one with an empty url.
OfferChoices ==
  {Outdated(u) : u \in WorldUrls}
    \cup {Bare(Url(HostWww, "/lagavulin"))}
    \cup {Current(Url(HostWww, "/lagavulin")), Current(Url(HostWww, "/deposit")),
          Current(Url(HostUpper, "/html"))}
    \cup {Outdated(Missing), Bare(PyStr(""))}

StoreChoices == UNION {[1..n -> OfferChoices] : n \in 0..MaxOffers}

(* ------------------------------------------------------------------ *)
(* State                                                              *)
(* ------------------------------------------------------------------ *)
VARIABLES
  fileExists,  \* OFFERS_PATH.exists()
  file,        \* the offers stored in offers.json
  pc,          \* "start", "loop", "done", "exit1", "crashed"; "parse", "parsed"
  run,         \* number of the current invocation of update_offers
  loaded,      \* what json.load returned at the start of this run
  offers,      \* the in-memory list of this run
  idx,         \* position of the for loop (1-based); 0 before the load
  changed,     \* the changed flag
  page,        \* the page last fetched
  result,      \* what parse_budgetdranken_product last returned or raised
  fetched,     \* positions of the offers fetched in this run
  writes,      \* number of times this run opened the store for writing
  exitCode,    \* exit status of the run: -1 while it runs
  stdout       \* the closing messages printed by this run

vars ==
  <<fileExists, file, pc, run, loaded, offers, idx, changed, page, result, fetched,
    writes, exitCode, stdout>>

NoPage == [status |-> "none"]
NoResult == [outcome |-> "none"]

\* The state of a process that has not started yet.
Fresh ==
  /\ pc = "start"
  /\ loaded = <<>>
  /\ offers = <<>>
  /\ idx = 0
  /\ changed = FALSE
  /\ page = NoPage
  /\ result = NoResult
  /\ fetched = {}
  /\ writes = 0
  /\ exitCode = -1
  /\ stdout = {}

Init ==
  /\ fileExists \in BOOLEAN
  /\ file \in (IF fileExists THEN StoreChoices ELSE {<<>>})
  /\ run = 1
  /\ Fresh

(* ------------------------------------------------------------------ *)
(* update_offers                                                      *)
(* ------------------------------------------------------------------ *)
\* sys.exit() without a status: the run ends with status 0.
ExitMissing_Status0 ==
  /\ pc = "start"
  /\ ~fileExists
  /\ stdout' = stdout \cup {"offers.json not found"}
  /\ exitCode' = 0
  /\ pc' = "exit1"
  /\ UNCHANGED <<fileExists, file, run, loaded, offers, idx, changed, page, result,
                 fetched, writes>>

\* if not OFFERS_PATH.exists(): print(...); sys.exit(1)
ExitMissing ==
  /\ pc = "start"
  /\ ~fileExists
  /\ stdout' = stdout \cup {"offers.json not found"}
  /\ exitCode' = 1
  /\ pc' = "exit1"
  /\ UNCHANGED <<fileExists, file, run, loaded, offers, idx, changed, page, result,
                 fetched, writes>>

\* offers = json.load(f); changed = False
LoadStore ==
  /\ pc = "start"
  /\ fileExists
  /\ offers' = file
  /\ loaded' = file
  /\ changed' = FALSE
  /\ idx' = 1
  /\ pc' = "loop"
  /\ UNCHANGED <<fileExists, file, run, page, result, fetched, writes, exitCode, stdout>>

InLoop == pc = "loop" /\ idx <= Len(offers)

\* The offer is one the loop reads: it has a url on the vendor's domain.
\* Without the domain test: every offer that has a url is fetched.
Eligible_AnyUrl(offer) == ~NoUrl(DictGet(offer.url))

Eligible(offer) == ~NoUrl(DictGet(offer.url)) /\ InDomain(DictGet(offer.url))

\* The iteration raises: in the fetch or the extraction, or in the reconciliation.
IterationRaises(offer, r) ==
  IF r.outcome = "raise" THEN TRUE ELSE ReconcileRaises(offer, r)

\* An iteration that leaves the offer alone: no url, or another domain.
SkipOffer ==
  /\ InLoop
  /\ ~Eligible(offers[idx])
  /\ idx' = idx + 1
  /\ UNCHANGED <<fileExists, file, pc, run, loaded, offers, changed, page, result,
                 fetched, writes, exitCode, stdout>>

\* An iteration that fetches the page, extracts the candidate and reconciles it.
UpdateOffer ==
  /\ InLoop
  /\ Eligible(offers[idx])
  /\ LET pg == PageOf(offers[idx].url)
         r == FetchAndParse(offers[idx].url)
     IN /\ ~IterationRaises(offers[idx], r)
        /\ page' = pg
        /\ result' = r
        /\ offers' = [offers EXCEPT ![idx] = Reconcile(offers[idx], r)]
        /\ changed' = NewChanged(changed, ReconcileChanged(offers[idx], r))
  /\ fetched' = fetched \cup {idx}
  /\ idx' = idx + 1
  /\ UNCHANGED <<fileExists, file, pc, run, loaded, writes, exitCode, stdout>>

\* An iteration in which an exception is raised: nothing catches it, the
\* interpreter prints the traceback and the process ends with status 1.
FailOffer ==
  /\ InLoop
  /\ Eligible(offers[idx])
  /\ LET pg == PageOf(offers[idx].url)
         r == FetchAndParse(offers[idx].url)
     IN /\ IterationRaises(offers[idx], r)
        /\ page' = pg
        /\ result' = r
  /\ fetched' = fetched \cup {idx}
  /\ pc' = "crashed"
  /\ exitCode' = 1
  /\ UNCHANGED <<fileExists, file, run, loaded, offers, idx, changed, writes, stdout>>

LoopOver == pc = "loop" /\ idx > Len(offers)

\* if changed: write the whole list back
WriteStore ==
  /\ LoopOver
  /\ changed
  /\ file' = offers
  /\ writes' = writes + 1
  /\ stdout' = stdout \cup {"offers.json updated."}
  /\ pc' = "done"
  /\ exitCode' = 0
  /\ UNCHANGED <<fileExists, run, loaded, offers, idx, changed, page, result, fetched>>

\* else: print("No changes detected.")
NoChanges ==
  /\ LoopOver
  /\ ~changed
  /\ stdout' = stdout \cup {"No changes detected."}
  /\ pc' = "done"
  /\ exitCode' = 0
  /\ UNCHANGED <<fileExists, file, run, loaded, offers, idx, changed, page, result,
                 fetched, writes>>

\* The script is invoked again, against the same pages.
RunEnded == pc \in {"done", "exit1", "crashed"}

NextRun ==
  /\ RunEnded
  /\ run < MaxRuns
  /\ run' = run + 1
  /\ pc' = "start"
  /\ loaded' = <<>>
  /\ offers' = <<>>
  /\ idx' = 0
  /\ changed' = FALSE
  /\ page' = NoPage
  /\ result' = NoResult
  /\ fetched' = {}
  /\ writes' = 0
  /\ exitCode' = -1
  /\ stdout' = {}
  /\ UNCHANGED <<fileExists, file>>

Next ==
  \/ ExitMissing
  \/ LoadStore
  \/ SkipOffer
  \/ UpdateOffer
  \/ FailOffer
  \/ WriteStore
  \/ NoChanges
  \/ NextRun

Spec == Init /\ [][Next]_vars

(* ------------------------------------------------------------------ *)
(* parse_budgetdranken_product on its own, over a range of pages      *)
(* ------------------------------------------------------------------ *)
PriceValues ==
  {Missing, JStr(<<"3", "4", ".", "9", "5">>), JStr(<<"1", ".", "2", "5">>), JStr(<<"5", ".", "0", "0">>), JStr(<<"4", ".", "9", "9">>),
   JStr(<<"a", "b", "c">>), JStr(<<"3", "4", ",", "9", "5">>), JStr(<<"N", "a", "N">>), JNum(3495), JNum(125), JNull}
LowValues == {Missing, JStr(<<" ", "2", "9", ".", "9", "5">>), JStr(<<"a", "b", "c">>), JNum(300)}
HighValues == {Missing, JNum(3995), JStr(<<"a", "b", "c">>)}

OffersValues ==
  {OffersDict(p, l, h) : p \in PriceValues, l \in LowValues, h \in HighValues}
    \cup {OffersList}

ScriptsValues ==
  {<<>>, <<BadJson>>, <<NoOffers>>, <<LdList(<<NoOffers>>)>>}
    \cup {<<Product(o)>> : o \in OffersValues}
    \cup {<<BadJson, NoOffers, LdList(<<NoOffers, LdDict(TRUE, Missing, o)>>)>> :
          o \in OffersValues}

PriceTexts ==
  {Missing, PyStr(<<>>), TxtFinal, TxtDeposit,
   PyStr(<<"1", ".", "2", "3", "4", ",", "5", "6">>), PyStr(<<"EUR", " ", "5", ",", "0", "0">>), PyStr(<<"4", ",", "9", "9">>), PyStr(<<"g", "r", "a", "t", "i", "s">>),
   PyStr(<<" ", "1", "2", " ">>), PyStr(<<"3", ",", "5", " ", "p", "e", "r", " ", "f", "l", "e", "s">>)}
OldPriceTexts == {Missing, PyStr(<<>>), TxtOld}
Headings ==
  {<<Missing, Missing, Missing>>,
   <<PyStr("Lagavulin 16"), PyStr("Lagavulin 16 x"), PyStr("Menu")>>,
   <<Missing, PyStr(""), PyStr("Menu")>>,
   <<Missing, Missing, PyStr("Talisker 10")>>}

Pages ==
  {Page("ok", sc, h[1], h[2], h[3], fp, op) :
     sc \in ScriptsValues, h \in Headings, fp \in PriceTexts, op \in OldPriceTexts}
    \cup {Page(st, <<>>, Missing, Missing, Missing, Missing, Missing) :
          st \in {"timeout", "404"}}

InitParse ==
  /\ page \in Pages
  /\ result = NoResult
  /\ pc = "parse"
  /\ fileExists = FALSE
  /\ file = <<>>
  /\ run = 1
  /\ loaded = <<>>
  /\ offers = <<>>
  /\ idx = 0
  /\ changed = FALSE
  /\ fetched = {}
  /\ writes = 0
  /\ exitCode = -1
  /\ stdout = {}

\* The call returns a candidate.
ParseReturns ==
  /\ pc = "parse"
  /\ parse_budgetdranken_product(page).outcome = "return"
  /\ result' = parse_budgetdranken_product(page)
  /\ pc' = "parsed"
  /\ UNCHANGED <<fileExists, file, run, loaded, offers, idx, changed, page, fetched,
                 writes, exitCode, stdout>>

\* The call raises.
ParseRaises ==
  /\ pc = "parse"
  /\ parse_budgetdranken_product(page).outcome = "raise"
  /\ result' = parse_budgetdranken_product(page)
  /\ pc' = "parsed"
  /\ UNCHANGED <<fileExists, file, run, loaded, offers, idx, changed, page, fetched,
                 writes, exitCode, stdout>>

NextParse == ParseReturns \/ ParseRaises

SpecParse == InitParse /\ [][NextParse]_vars

(* ------------------------------------------------------------------ *)
(* Properties                                                         *)
(* ------------------------------------------------------------------ *)
\* The run was started on an existing store and has ended, normally or not.
Ended == pc \in {"done", "crashed"}
Positions == DOMAIN loaded

\* The candidate the page of offer i yields in this run.
Candidate(i) == FetchAndParse(loaded[i].url)

\* Offer i was fetched and the extractor returned a candidate for it.
GotCandidate(i) == i \in fetched /\ Candidate(i).outcome = "return"

\* C1: parse_budgetdranken_product never returns a price below 5.00, whichever
\* strategy (structured data or HTML fallback) produced it.
C1_NoPriceBelowMinimum ==
  (pc = "parsed" /\ result.outcome = "return") => ~BelowMinimum(result.price)

\* C2: a failure of the fetch or the extraction of one offer skips that offer
\* only: when the run has ended, every offer after the failing one has been
\* visited, and the changes made to the other offers are in the store.
FailedPositions == {i \in fetched : Candidate(i).outcome = "raise"}
C2_FailureSkipsOneOffer ==
  (Ended /\ FailedPositions # {}) =>
    /\ \A f \in FailedPositions : \A j \in Positions : j > f => j < idx
    /\ (changed => file = offers)

\* C3: the store is written at most once per run, only after every offer has
\* been processed, and exactly when title, price or oldPrice of some offer
\* was changed during the run.
FieldChanged(i) ==
  \/ offers[i].title # loaded[i].title
  \/ offers[i].price # loaded[i].price
  \/ offers[i].oldPrice # loaded[i].oldPrice
C3_WriteOnceIffChanged ==
  /\ writes <= 1
  /\ (writes = 1 => idx > Len(offers))
  /\ (Ended => ((writes = 1) <=> (\E i \in Positions : FieldChanged(i))))

\* C4: for every offer the loop has reconciled with a candidate, each field
\* for which the candidate supplied a value different from the stored one now
\* holds the candidate's value, and the changed flag is set; the step cannot
\* fail, so an offer with a candidate is always a reconciled one.
C4_DifferingFieldApplied ==
  \A i \in Positions :
    GotCandidate(i) =>
      LET r == Candidate(i) IN
      /\ (Truthy(r.title) /\ r.title # DictGet(loaded[i].title))
            => (offers[i].title = r.title /\ changed)
      /\ (r.price # PyNone /\ r.price # DictGet(loaded[i].price))
            => (offers[i].price = r.price /\ changed)
      /\ (r.old_price # PyNone /\ r.old_price # DictGet(loaded[i].oldPrice))
            => (offers[i].oldPrice = r.old_price /\ changed)

\* C5: a field the candidate does not supply is left exactly as it was stored,
\* in memory and in the store: no price, then price is untouched; no old price,
\* then oldPrice is untouched; no title, then title is untouched.
C5_AbsentFieldUntouched ==
  (pc \in {"loop", "done", "crashed"}) =>
    \A i \in Positions :
      GotCandidate(i) =>
        LET r == Candidate(i) IN
        /\ r.price = PyNone =>
             (offers[i].price = loaded[i].price /\ file[i].price = loaded[i].price)
        /\ r.old_price = PyNone =>
             (offers[i].oldPrice = loaded[i].oldPrice
                /\ file[i].oldPrice = loaded[i].oldPrice)
        /\ ~Truthy(r.title) =>
             (offers[i].title = loaded[i].title /\ file[i].title = loaded[i].title)

\* A run that wrote the store after a title-only candidate changed the title
\* of an offer with a stored price, and a price-only candidate changed the
\* price of an offer with a stored old price.
C5_Witness ==
  /\ pc = "done"
  /\ writes = 1
  /\ \E i \in Positions :
       /\ GotCandidate(i)
       /\ Candidate(i).price = PyNone
       /\ Truthy(Candidate(i).title)
       /\ loaded[i].price # Missing
       /\ file[i].title # loaded[i].title
       /\ file[i].price = loaded[i].price
  /\ \E j \in Positions :
       /\ GotCandidate(j)
       /\ Candidate(j).price # PyNone
       /\ Candidate(j).old_price = PyNone
       /\ loaded[j].oldPrice # Missing
       /\ file[j].price # loaded[j].price
       /\ file[j].oldPrice = loaded[j].oldPrice

\* C6: reconciliation is idempotent: applying its candidate again to an offer
\* the loop has reconciled reports no change; and a second run against the
\* same pages detects no change and does not write the store.
C6_Idempotent ==
  /\ \A i \in Positions :
       (GotCandidate(i) /\ (pc = "crashed" => i < idx))
         => ~ReconcileChanged(offers[i], Candidate(i))
  /\ (run >= 2 => (~changed /\ writes = 0))

\* C7: a run adds, removes or reorders no offer, changes no field other than
\* title, price and oldPrice, and neither fetches nor changes an offer that has
\* no url or whose host does not contain the vendor's domain; this holds of the
\* list in memory and of the store.
Untouchable(offer) ==
  NoUrl(DictGet(offer.url)) \/ ~InDomain(DictGet(offer.url))
C8_FallbackWhenNoJsonLdPrice ==
  (pc = "parsed" /\ result.outcome = "return"
     /\ FallbackResult(page).price # PyNone)
    => result.price # PyNone

\* The run of update_offers on a store, as one computation: the loop from
\* position i with the list and the flag so far, then the decision to write.
RECURSIVE LoopFrom(_, _, _)
LoopFrom(list, i, chg) ==
  IF i > Len(list) THEN [offers |-> list, changed |-> chg, crashed |-> FALSE]
  ELSE IF ~Eligible(list[i]) THEN LoopFrom(list, i + 1, chg)
  ELSE
    LET r == FetchAndParse(list[i].url) IN
    IF IterationRaises(list[i], r)
    THEN [offers |-> list, changed |-> chg, crashed |-> TRUE]
    ELSE LoopFrom([list EXCEPT ![i] = Reconcile(list[i], r)], i + 1,
                  NewChanged(chg, ReconcileChanged(list[i], r)))

RunOn(store) ==
  LET l == LoopFrom(store, 1, FALSE)
      wrote == ~l.crashed /\ l.changed
  IN [file |-> IF wrote THEN l.offers ELSE store, wrote |-> wrote]

\* The list in the order p: position i holds what position p[i] held.
RECURSIVE Rearranged(_, _, _)
Rearranged(list, p, i) ==
  IF i > Len(list) THEN <<>> ELSE <<list[p[i]]>> \o Rearranged(list, p, i + 1)

\* C9: the order of the offers does not matter: when the run has ended, what
\* the store holds for each offer, and whether the store was written, is what
\* a run over any other arrangement of the same offers gives.
C9_OrderIndependent ==
  Ended =>
    \A p \in Permutations(Positions) :
      LET other == RunOn(Rearranged(loaded, p, 1)) IN
      /\ other.wrote = (writes = 1)
      /\ \A i \in Positions : other.file[i] = file[p[i]]

\* A run over two offers with different URLs, both fetched, that changed the
\* first and not the second, and wrote the store.
C9_Witness ==
  /\ pc = "done"
  /\ writes = 1
  /\ Len(loaded) >= 2
  /\ loaded[1].url # loaded[2].url
  /\ fetched = Positions
  /\ file[1] # loaded[1]
  /\ file[2] = loaded[2]

\* C10: on a missing store the run ends at once with status 1 and the
\* diagnostic: nothing is loaded, fetched or reconciled, and no store appears.
C10_MissingStoreIsFatal ==
  /\ (~fileExists /\ pc # "start") => pc = "exit1"
  /\ pc = "exit1" =>
       /\ exitCode = 1
       /\ "offers.json not found" \in stdout
       /\ fetched = {}
       /\ offers = <<>>
       /\ ~changed
       /\ writes = 0
       /\ ~fileExists
       /\ file = <<>>

\* The script has been run twice on a missing store.
C10_Witness == pc = "exit1" /\ run = 2 /\ ~fileExists

====
